---- MODULE Spec2Model ----
(***************************************************************************)
(* Model of pattern-splitter (src/src/pattern-splitter.ts, second version  *)
(* of the module, lines 199-673): generateTiledPDF and the pure helpers it *)
(* calls.                                                                  *)
(*                                                                         *)
(* Numbers.  The program computes with IEEE doubles.  The model computes   *)
(* with exact fractions [n, d], d >= 0, where d = 0 stands for the values  *)
(* a division by zero produces: n > 0 is +Infinity, n < 0 is -Infinity and *)
(* n = 0 is NaN.  Rounding error of the doubles is not modelled.           *)
(***************************************************************************)
EXTENDS Integers, Sequences, FiniteSets, TLC

(***************************************************************************)
(* Bounds of the model.                                                    *)
(***************************************************************************)
\* largest declared document width, in mm
MaxWidthMM == 10
\* number of loop iterations after which a conversion is no longer followed
\* (conversions whose grid is infinite or has more tiles get that far)
MaxTiles == 12

(***************************************************************************)
(* JS number arithmetic.                                                   *)
(***************************************************************************)
Abs(i) == IF i < 0 THEN -i ELSE i

RECURSIVE Gcd(_, _)
Gcd(a, b) == IF b = 0 THEN a ELSE Gcd(b, a % b)

\* a fraction in lowest terms; the infinities are 1/0 and -1/0, NaN is 0/0
Norm(n, d) ==
    IF d = 0 THEN [n |-> (IF n > 0 THEN 1 ELSE IF n < 0 THEN -1 ELSE 0), d |-> 0]
    ELSE LET g == Gcd(Abs(n), d) IN [n |-> n \div g, d |-> d \div g]

R(i) == [n |-> i, d |-> 1]
NaN == [n |-> 0, d |-> 0]
IsNaN(a) == a.n = 0 /\ a.d = 0
IsFinite(a) == a.d > 0

\* a + b
RAdd(a, b) ==
    IF a.d = 0 /\ b.d = 0 THEN (IF a.n = b.n THEN a ELSE NaN)
    ELSE Norm(a.n * b.d + b.n * a.d, a.d * b.d)
\* a - b
RSub(a, b) == RAdd(a, [n |-> -b.n, d |-> b.d])
\* a * b
RMul(a, b) == Norm(a.n * b.n, a.d * b.d)
\* a / b   (x / 0 is an infinity, 0 / 0 is NaN)
RDiv(a, b) ==
    IF b.n < 0 THEN Norm(-(a.n * b.d), a.d * (-b.n))
    ELSE Norm(a.n * b.d, a.d * b.n)
\* a < b   (false when either side is NaN)
RLess(a, b) == ~IsNaN(a) /\ ~IsNaN(b) /\ a.n * b.d < b.n * a.d
\* a <= b
RLeq(a, b) == ~IsNaN(a) /\ ~IsNaN(b) /\ a.n * b.d <= b.n * a.d
\* a === b
REq(a, b) == ~IsNaN(a) /\ ~IsNaN(b) /\ a.n * b.d = b.n * a.d

\* Math.floor
MathFloor(a) == IF a.d = 0 THEN a ELSE R(a.n \div a.d)
\* Math.ceil
MathCeil(a) == IF a.d = 0 THEN a ELSE R(-((-a.n) \div a.d))
\* Math.round: the nearest integer, halves towards +Infinity
MathRound(a) == IF a.d = 0 THEN a ELSE R((2 * a.n + a.d) \div (2 * a.d))

\* !x for a number x: 0 and NaN are falsy
Falsy(a) == a.n = 0

PX_TO_MM == Norm(254, 960)

(***************************************************************************)
(* Attribute values.  An attribute is absent, or a text of which the model *)
(* keeps what parseUnit looks at: the number parseFloat reads at its start *)
(* (NaN if there is none) and the suffix the text ends with.               *)
(***************************************************************************)
Absent == [present |-> FALSE, empty |-> FALSE, num |-> NaN, suffix |-> ""]
Len_(x, u) == [present |-> TRUE, empty |-> FALSE, num |-> x, suffix |-> u]
\* the empty text
Empty == [present |-> TRUE, empty |-> TRUE, num |-> NaN, suffix |-> ""]
\* a text parseFloat reads no number from, ending with u ("abc", "wide mm")
NonNumeric(u) == Len_(NaN, u)

\* String.prototype.toLowerCase on the suffixes the model uses
ToLowerCase(s) ==
    CASE s = "MM" -> "mm"
      [] s = "CM" -> "cm"
      [] s = "IN" -> "in"
      [] s = "PT" -> "pt"
      [] s = "PC" -> "pc"
      [] s = "PX" -> "px"
      [] s = "Cm" -> "cm"
      [] s = "Pt" -> "pt"
      [] OTHER -> s

\* the result of parseUnit: null, or a number
Null == [isNull |-> TRUE, v |-> NaN]
Num(x) == [isNull |-> FALSE, v |-> x]
\* a test for null alone: widthMM === null
FalsyOrNull_NullOnly(m) == m.isNull

\* !x for number | null
FalsyOrNull(m) == m.isNull \/ Falsy(m.v)

\* val.toLowerCase() left out: the suffixes are matched as written
parseUnit_CaseSensitive(val) ==
    IF ~val.present \/ val.empty THEN Null
    ELSE LET s == val.suffix
             num == val.num
         IN  CASE s = "mm" -> Num(num)
               [] s = "cm" -> Num(RMul(num, R(10)))
               [] s = "in" -> Num(RMul(num, Norm(254, 10)))
               [] s = "pt" -> Num(RMul(num, RDiv(Norm(254, 10), R(72))))
               [] s = "pc" -> Num(RMul(num, RDiv(Norm(254, 10), R(6))))
               [] OTHER -> Num(RMul(num, PX_TO_MM))

\* 0 returned for a missing value in place of null
parseUnit_ZeroForMissing(val) ==
    IF ~val.present \/ val.empty THEN Num(R(0))
    ELSE LET s == ToLowerCase(val.suffix)
             num == val.num
         IN  CASE s = "mm" -> Num(num)
               [] s = "cm" -> Num(RMul(num, R(10)))
               [] s = "in" -> Num(RMul(num, Norm(254, 10)))
               [] s = "pt" -> Num(RMul(num, RDiv(Norm(254, 10), R(72))))
               [] s = "pc" -> Num(RMul(num, RDiv(Norm(254, 10), R(6))))
               [] OTHER -> Num(RMul(num, PX_TO_MM))

parseUnit(val) ==
    IF ~val.present \/ val.empty THEN Null
    ELSE LET s == ToLowerCase(val.suffix)
             num == val.num
         IN  CASE s = "mm" -> Num(num)
               [] s = "cm" -> Num(RMul(num, R(10)))
               [] s = "in" -> Num(RMul(num, Norm(254, 10)))
               [] s = "pt" -> Num(RMul(num, RDiv(Norm(254, 10), R(72))))
               [] s = "pc" -> Num(RMul(num, RDiv(Norm(254, 10), R(6))))
               [] OTHER -> Num(RMul(num, PX_TO_MM))

\* viewBox.split(/\s|,/).filter(Boolean).map(parseFloat): the attribute is
\* kept as the sequence of numbers it splits into (<<>> when it is absent,
\* the only case in which the model has no parts)
ViewBoxPresent(svg) == Len(svg.viewBox) > 0
\* parts[i] of a JS array, 0-based: undefined (NaN in arithmetic) past the end
At(parts, i) == IF i + 1 <= Len(parts) THEN parts[i + 1] ELSE NaN

\* the viewBox taken for both axes as soon as one of them is missing
resolveDimensions_ViewBoxOverrides(w0, h0, parts) ==
    LET useVb == (FalsyOrNull(w0) \/ FalsyOrNull(h0)) /\ Len(parts) = 4
        wVb == IF useVb THEN Num(RMul(At(parts, 2), PX_TO_MM)) ELSE w0
        hVb == IF useVb THEN Num(RMul(At(parts, 3), PX_TO_MM)) ELSE h0
    IN  [w |-> IF FalsyOrNull(wVb) THEN R(210) ELSE wVb.v,
         h |-> IF FalsyOrNull(hVb) THEN R(297) ELSE hVb.v]

\* the fallback chain of getSvgDimensionsInMM on the parsed attributes
resolveDimensions(w0, h0, parts) ==
    LET useVb == (FalsyOrNull(w0) \/ FalsyOrNull(h0)) /\ Len(parts) = 4
        wVb == IF useVb /\ FalsyOrNull(w0) THEN Num(RMul(At(parts, 2), PX_TO_MM)) ELSE w0
        hVb == IF useVb /\ FalsyOrNull(h0) THEN Num(RMul(At(parts, 3), PX_TO_MM)) ELSE h0
    IN  [w |-> IF FalsyOrNull(wVb) THEN R(210) ELSE wVb.v,
         h |-> IF FalsyOrNull(hVb) THEN R(297) ELSE hVb.v]

getSvgDimensionsInMM(svg) ==
    resolveDimensions(parseUnit(svg.width), parseUnit(svg.height), svg.viewBox)

\* the last column taken to be col === totalCols, the last row row === totalRows
getTileBorderInstructions_LastOffByOne(row, col, totalRows, totalCols) ==
    LET isFirstRow == REq(row, R(0))
        isLastRow  == REq(row, totalRows)
        isFirstCol == REq(col, R(0))
        isLastCol  == REq(col, totalCols)
    IN  [top    |-> IF isFirstRow THEN "none" ELSE "cut",
         right  |-> IF isLastCol  THEN "none" ELSE "glue",
         bottom |-> IF isLastRow  THEN "none" ELSE "glue",
         left   |-> IF isFirstCol THEN "none" ELSE "cut"]

\* 'cut' on the right edge in place of 'glue'
getTileBorderInstructions_RightCut(row, col, totalRows, totalCols) ==
    LET isFirstRow == REq(row, R(0))
        isLastRow  == REq(row, RSub(totalRows, R(1)))
        isFirstCol == REq(col, R(0))
        isLastCol  == REq(col, RSub(totalCols, R(1)))
    IN  [top    |-> IF isFirstRow THEN "none" ELSE "cut",
         right  |-> IF isLastCol  THEN "none" ELSE "cut",
         bottom |-> IF isLastRow  THEN "none" ELSE "glue",
         left   |-> IF isFirstCol THEN "none" ELSE "cut"]

(***************************************************************************)
(* getTileBorderInstructions: the cut/glue instruction of each edge of the *)
(* tile at (row, col) of a grid of totalRows x totalCols tiles.            *)
(***************************************************************************)
getTileBorderInstructions(row, col, totalRows, totalCols) ==
    LET isFirstRow == REq(row, R(0))
        isLastRow  == REq(row, RSub(totalRows, R(1)))
        isFirstCol == REq(col, R(0))
        isLastCol  == REq(col, RSub(totalCols, R(1)))
    IN  [top    |-> IF isFirstRow THEN "none" ELSE "cut",
         right  |-> IF isLastCol  THEN "none" ELSE "glue",
         bottom |-> IF isLastRow  THEN "none" ELSE "glue",
         left   |-> IF isFirstCol THEN "none" ELSE "cut"]

(***************************************************************************)
(* The steps of generateTiledPDF on its options                            *)
(* o = [svg, paperWidth, paperHeight, margin, onProgress].                 *)
(***************************************************************************)
\* the floor misread as 9: margin < 9
MarginTooSmall_OffByOne(o) == o.margin < 9

\* margin < 10
MarginTooSmall(o) == o.margin < 10

\* querySelector in place of querySelectorAll: only the first script goes
RemoveScripts_FirstOnly(svg) == [svg EXCEPT !.scripts = IF @ > 0 THEN @ - 1 ELSE 0]

\* svgElement.querySelectorAll("script").forEach(s => s.remove())
RemoveScripts(svg) == [svg EXCEPT !.scripts = 0]

\* "Normalize viewBox": the attribute, or "0 0 w/PX h/PX" when it is absent,
\* split into its numbers
normalizedViewBox(svg, size) ==
    IF ~ViewBoxPresent(svg)
    THEN <<R(0), R(0), RDiv(size.w, PX_TO_MM), RDiv(size.h, PX_TO_MM)>>
    ELSE svg.viewBox

\* the aspect ratio inverted: svgWidthMM * (vbW / vbH)
syncedHeight_Inverted(widthMM, vb) == RMul(widthMM, RDiv(At(vb, 2), At(vb, 3)))

\* "Sync height to aspect ratio": svgWidthMM / (vbW / vbH)
syncedHeight(widthMM, vb) == RDiv(widthMM, RDiv(At(vb, 2), At(vb, 3)))

\* paperWidth - 2 * margin
usable(paper, margin) == R(paper - 2 * margin)

\* Math.floor in place of Math.ceil
gridCount_Floor(lengthMM, usableMM) == MathFloor(RDiv(lengthMM, usableMM))

\* Math.ceil(svgWidthMM / usableW), Math.ceil(svgHeightMM / usableH)
gridCount(lengthMM, usableMM) == MathCeil(RDiv(lengthMM, usableMM))

\* the viewBox of the tile at (row, col): <<tileVx, tileVy, tileVw, tileVh>>.
\* It is written into the attribute with a template string and read back
\* by the renderer; a JS number printed and parsed is the same number.
tileViewBox(vb, uW, uH, sX, sY, row, col) ==
    << RAdd(At(vb, 0), RMul(RMul(R(col), uW), sX)),
       RAdd(At(vb, 1), RMul(RMul(R(row), uH), sY)),
       RMul(uW, sX),
       RMul(uH, sY) >>

\* Math.floor in place of Math.round
progressPct_Floor(count, total) == MathFloor(RMul(RDiv(R(count), total), R(100)))

\* Math.round((processedCount / totalTiles) * 100)
progressPct(count, total) == MathRound(RMul(RDiv(R(count), total), R(100)))

\* a new page only within a row: c > 0
NeedsNewPage_ColumnOnly(row, col) == col > 0

\* if (r > 0 || c > 0) pdf.addPage(...)
NeedsNewPage(row, col) == row > 0 \/ col > 0

\* r < rows, c < cols
LoopTest(i, n) == RLess(R(i), n)

\* the callback moved behind the call of svg2pdfFn
progressThenRender_CallbackLast(progress, render) == render \o progress

\* the order of the two calls in the loop body: onProgress (lines 374-377),
\* then svg2pdfFn (393)
progressThenRender(progress, render) == progress \o render

\* a rejection of svg2pdfFn caught and dropped: the loop goes on
RejectionPropagates_Swallowed == FALSE

\* the await of svg2pdfFn stands in no try block: a rejection leaves
\* generateTiledPDF
RejectionPropagates == TRUE

\* the call of svg2pdfFn is not awaited
RenderIsAwaited_Missing == FALSE

\* the call of svg2pdfFn is awaited
RenderIsAwaited == TRUE

(***************************************************************************)
(* Drawing.  A page of the document is its format and the sequence of the  *)
(* drawing operations made on it, in order.  Colours, line widths, dash    *)
(* patterns and font sizes are not kept.  A drawing operation is           *)
(* [op, text, a]: the primitive, the text it prints (if any) and its       *)
(* numeric arguments.                                                      *)
(***************************************************************************)
\* x / 10: the decimal literals of the source (1.5 is Dec(15))
Dec(x) == Norm(x, 10)

NoText == [s |-> "", row |-> 0, col |-> 0]
Plain(s) == [s |-> s, row |-> 0, col |-> 0]
\* `Top | Tile: ${r + 1}-${c + 1}`
TileLabel(r, c) == [s |-> "Top | Tile: ", row |-> r + 1, col |-> c + 1]

\* pdf.line(x1, y1, x2, y2)
LineOp(x1, y1, x2, y2) == [op |-> "line", text |-> NoText, a |-> <<x1, y1, x2, y2>>]
\* pdf.rect(x, y, w, h) with the dash pattern [3, 3]
RectOp(x, y, w, h) == [op |-> "rect", text |-> NoText, a |-> <<x, y, w, h>>]
\* pdf.text(text, x, y, {angle})
TextOp(t, x, y, angle) == [op |-> "text", text |-> t, a |-> <<x, y, R(angle)>>]
\* the content svg2pdf draws: the tile (row, col), its viewBox, its placement
SvgOp(req) == [op |-> "svg", text |-> [s |-> "", row |-> req.row, col |-> req.col],
               a |-> req.viewBox \o req.box]
\* a diamond: the filled path around (cx, cy) and its white crosshair
DiamondOp(cx, cy, radius) == [op |-> "diamond", text |-> NoText, a |-> <<cx, cy, radius>>]
\* an icon: the scissors (two circles, two lines) or the drop (circle, triangle)
IconOp(kind, cx, cy, angle) == [op |-> kind, text |-> NoText, a |-> <<cx, cy, R(angle)>>]

NewPage(o) == [format |-> <<o.paperWidth, o.paperHeight>>, ops |-> <<>>]

\* the page all drawing goes to is the last page of the document
DrawOn(doc, ops) == [doc EXCEPT ![Len(doc)].ops = @ \o ops]

\* Math.cos / Math.sin of the three angles the labels use
Cos(angle) == CASE angle = 0 -> R(1) [] angle = 90 -> R(0) [] angle = 270 -> R(0)
Sin(angle) == CASE angle = 0 -> R(0) [] angle = 90 -> R(1) [] angle = 270 -> R(-1)

\* the two texts exchanged
labelMap_Swapped(type) ==
    CASE type = "glue" -> "[ CUT  OUT ]"
      [] type = "cut"  -> "[ GLUE ]"
      [] type = "none" -> ""

labelMap(type) ==
    CASE type = "glue" -> "[ GLUE ]"
      [] type = "cut"  -> "[ CUT  OUT ]"
      [] type = "none" -> ""

\* pdf.getTextWidth(text): a value of the document writer; the test double's
getTextWidth(text) == R(10)

drawCornerMark(cx, cy, isLeft, isTop) ==
    LET cInner == R(2)
        cOuter == R(5)
        xStart == IF isLeft THEN RSub(cx, cOuter) ELSE RSub(cx, cInner)
        xEnd   == IF isLeft THEN RAdd(cx, cInner) ELSE RAdd(cx, cOuter)
        yStart == IF isTop THEN RSub(cy, cOuter) ELSE RSub(cy, cInner)
        yEnd   == IF isTop THEN RAdd(cy, cInner) ELSE RAdd(cy, cOuter)
    IN  << LineOp(xStart, cy, xEnd, cy), LineOp(cx, yStart, cx, yEnd) >>

\* the ruler anchored to the paper edge: startX = 10 in place of margin
drawRuler_PaperAnchored(margin) ==
    LET verifyLen == R(50)
        rulerOffset == R(2)
        startX == R(10)
        startY == RSub(margin, rulerOffset)
        vLineStartY == RAdd(startY, rulerOffset)
        vLineStartX == RSub(startX, rulerOffset)
        t == Dec(15)
    IN  << LineOp(startX, startY, RAdd(startX, verifyLen), startY),
           LineOp(startX, RSub(startY, t), startX, RAdd(startY, t)),
           LineOp(RAdd(startX, verifyLen), RSub(startY, t),
                  RAdd(startX, verifyLen), RAdd(startY, t)),
           LineOp(vLineStartX, vLineStartY, vLineStartX, RAdd(vLineStartY, verifyLen)),
           LineOp(RSub(vLineStartX, t), vLineStartY, RAdd(vLineStartX, t), vLineStartY),
           LineOp(RSub(vLineStartX, t), RAdd(vLineStartY, verifyLen),
                  RAdd(vLineStartX, t), RAdd(vLineStartY, verifyLen)),
           TextOp(Plain("5cm"), RAdd(RAdd(startX, verifyLen), R(1)),
                  RAdd(startY, Dec(5)), 0),
           TextOp(Plain("5cm"), RAdd(vLineStartX, Dec(5)),
                  RAdd(RAdd(vLineStartY, verifyLen), R(5)), 90) >>

\* the scale verification lines and their two "5cm" labels
drawRuler(margin) ==
    LET verifyLen == R(50)
        rulerOffset == R(2)
        startX == margin
        startY == RSub(margin, rulerOffset)
        vLineStartY == RAdd(startY, rulerOffset)
        vLineStartX == RSub(startX, rulerOffset)
        t == Dec(15)
    IN  << LineOp(startX, startY, RAdd(startX, verifyLen), startY),
           LineOp(startX, RSub(startY, t), startX, RAdd(startY, t)),
           LineOp(RAdd(startX, verifyLen), RSub(startY, t),
                  RAdd(startX, verifyLen), RAdd(startY, t)),
           LineOp(vLineStartX, vLineStartY, vLineStartX, RAdd(vLineStartY, verifyLen)),
           LineOp(RSub(vLineStartX, t), vLineStartY, RAdd(vLineStartX, t), vLineStartY),
           LineOp(RSub(vLineStartX, t), RAdd(vLineStartY, verifyLen),
                  RAdd(vLineStartX, t), RAdd(vLineStartY, verifyLen)),
           TextOp(Plain("5cm"), RAdd(RAdd(startX, verifyLen), R(1)),
                  RAdd(startY, Dec(5)), 0),
           TextOp(Plain("5cm"), RAdd(vLineStartX, Dec(5)),
                  RAdd(RAdd(vLineStartY, verifyLen), R(5)), 90) >>

\* the diamond drawn around its top vertex in place of its centre
drawDiamond_AroundTopVertex(centerX, centerY) ==
    << DiamondOp(centerX, RSub(centerY, Dec(25)), Dec(25)) >>

drawDiamond(centerX, centerY) == << DiamondOp(centerX, centerY, Dec(25)) >>

drawLabelWithIcon(type, x, y, angle, iconOffsetX, iconOffsetY) ==
    LET text == labelMap(type)
        w == getTextWidth(text)
        iconGap == R(3)
        localX == RAdd(RAdd(RDiv(w, R(2)), iconGap), iconOffsetX)
        localY == RAdd(R(-1), iconOffsetY)
        iconCenterX == RAdd(x, RSub(RMul(localX, Cos(angle)), RMul(localY, Sin(angle))))
        iconCenterY == RAdd(y, RAdd(RMul(localX, Sin(angle)), RMul(localY, Cos(angle))))
    IN  IF text = "" \/ type = "none" THEN << >>
        ELSE << TextOp(Plain(text), x, y, angle),
                IconOp(IF type = "cut" THEN "scissors" ELSE "drop",
                       iconCenterX, iconCenterY, angle) >>

\* everything generateTiledPDF draws on the page of tile (row, col) once its
\* content is rendered, in drawing order
tileAnnotations(margin, uW, uH, nRows, nCols, row, col) ==
    LET right == RAdd(margin, uW)
        bottom == RAdd(margin, uH)
        midH == RAdd(margin, RDiv(uH, R(2)))
        midW == RAdd(margin, RDiv(uW, R(2)))
        borderInstr == getTileBorderInstructions(R(row), R(col), nRows, nCols)
        dist == Dec(35)
    IN  << RectOp(margin, margin, uW, uH),
           TextOp(TileLabel(row, col), RAdd(margin, R(2)), RAdd(margin, R(4)), 0) >>
        \o drawCornerMark(right, margin, FALSE, TRUE)
        \o drawCornerMark(right, bottom, FALSE, FALSE)
        \o drawCornerMark(margin, bottom, TRUE, FALSE)
        \o drawRuler(margin)
        \o (IF RLess(R(col), RSub(nCols, R(1))) THEN drawDiamond(right, midH) ELSE << >>)
        \o (IF col > 0 THEN drawDiamond(margin, midH) ELSE << >>)
        \o (IF RLess(R(row), RSub(nRows, R(1))) THEN drawDiamond(midW, bottom) ELSE << >>)
        \o (IF row > 0 THEN drawDiamond(midW, margin) ELSE << >>)
        \o (IF borderInstr.top # "none"
            THEN drawLabelWithIcon(borderInstr.top, RAdd(midW, R(14)),
                                   RAdd(RSub(margin, dist), Dec(25)), 0, R(0), R(0))
            ELSE << >>)
        \o (IF borderInstr.right # "none"
            THEN drawLabelWithIcon(borderInstr.right, RAdd(RAdd(right, dist), Dec(25)),
                                   RAdd(midH, R(-20)), 270, R(-20), R(-3))
            ELSE << >>)
        \o (IF borderInstr.bottom # "none"
            THEN drawLabelWithIcon(borderInstr.bottom, RAdd(midW, R(-17)),
                                   RAdd(RAdd(RAdd(bottom, dist), R(2)), Dec(-25)),
                                   0, R(0), R(0))
            ELSE << >>)
        \o (IF borderInstr.left # "none"
            THEN drawLabelWithIcon(borderInstr.left, RAdd(RSub(margin, dist), R(10)),
                                   RAdd(midH, R(25)), 90, R(-28), R(9))
            ELSE << >>)

(***************************************************************************)
(* The inputs: documents, paper sizes and margins the conversions are run  *)
(* on.  Small papers make small documents span several pages.              *)
(***************************************************************************)
Mm(w) == Len_(R(w), "mm")

\* width = height = w mm, viewBox "0 0 w w"
SquareDoc(w) == [width |-> Mm(w), height |-> Mm(w),
                 viewBox |-> <<R(0), R(0), R(w), R(w)>>, scripts |-> 0]
\* width = w mm, no height, viewBox "5 -3 3w 2w" and two script elements
WideDoc(w) == [width |-> Mm(w), height |-> Absent,
               viewBox |-> <<R(5), R(-3), R(3 * w), R(2 * w)>>, scripts |-> 2]
\* width = w mm, height = w + 1 mm, no viewBox
PlainDoc(w) == [width |-> Mm(w), height |-> Mm(w + 1), viewBox |-> << >>, scripts |-> 1]
\* width = w mm, height = 3w mm, viewBox "0 0 2w w": the declared height
\* disagrees with the aspect ratio of the viewBox
TallDoc(w) == [width |-> Mm(w), height |-> Mm(3 * w),
               viewBox |-> <<R(0), R(0), R(2 * w), R(w)>>, scripts |-> 0]
\* no width, no height, no viewBox
EmptyDoc == [width |-> Absent, height |-> Absent, viewBox |-> << >>, scripts |-> 0]

SmallDocs ==
    UNION { {SquareDoc(w), WideDoc(w), PlainDoc(w), TallDoc(w)} : w \in 1..MaxWidthMM }
LargeDocs == { EmptyDoc, SquareDoc(400) }

SmallPapers == { <<24, 26>>, <<24, 24>>, <<30, 22>>, <<22, 30>> }
SmallMargins == { 9, 10, 11, 12, 13 }

MkOptions(svg, paper, margin, onProgress) ==
    [svg |-> svg, paperWidth |-> paper[1], paperHeight |-> paper[2],
     margin |-> margin, onProgress |-> onProgress]

Options ==
    { MkOptions(d, p, m, cb) : d \in SmallDocs, p \in SmallPapers,
                               m \in SmallMargins, cb \in BOOLEAN }
    \cup { MkOptions(d, <<210, 297>>, m, cb) : d \in LargeDocs,
                                                m \in {9, 10}, cb \in BOOLEAN }

(***************************************************************************)
(* One call of generateTiledPDF(opts).                                     *)
(*   pc             where the call is: "idle" before it, "importing" at    *)
(*                  the awaited imports, "loop" at the head of the loops,  *)
(*                  "awaitRender" at the awaited svg2pdf call, "annotate"  *)
(*                  after it, "done" returned, "rejected"/"failed" thrown  *)
(*   svgElement     the parsed document                                    *)
(*   widthMM, heightMM                                                     *)
(*                  the locals of those names of getSvgDimensionsInMM:     *)
(*                  what parseUnit returned for the two attributes         *)
(*   svgWidthMM .. scaleY, r, c, processedCount                            *)
(*                  the locals of those names (zero before they are set)   *)
(*   pdf            the pages of the jsPDF document (<<>> before it is     *)
(*                  constructed)                                           *)
(*   calls          the calls made to the collaborators, in order          *)
(*   pending        the svg2pdf requests issued and not yet settled        *)
(*   result         the value returned (at most one)                       *)
(*   error          the message of the error thrown ("" if none)           *)
(*   earlier        the conversions made before this call, in order: the   *)
(*                  options and the outcome of each                        *)
(*   ui             the page of the web application (main.ts): its module  *)
(*                  state and the elements its handlers write              *)
(***************************************************************************)
VARIABLES opts, pc, svgElement, widthMM, heightMM, svgWidthMM, svgHeightMM,
          viewBox, usableW, usableH, cols, rows, totalTiles, scaleX, scaleY,
          r, c, processedCount, pdf, calls, pending, result, error, earlier, ui

locals == <<svgElement, widthMM, heightMM, svgWidthMM, svgHeightMM, viewBox,
            usableW, usableH, cols, rows, totalTiles, scaleX, scaleY>>

vars == <<opts, pc, locals, r, c, processedCount, pdf, calls, pending, result, error,
          earlier, ui>>

\* the page as loaded: currentSvgText = null, currentSvgElement = null, no
\* file being read, no conversion running; the export button disabled and
\* the progress bar invisible, as clearFile and generatePDF leave them
PageLoaded ==
    [currentSvgText |-> {}, currentSvgElement |-> {}, btnExportDisabled |-> TRUE,
     progressInvisible |-> TRUE, reading |-> {}, converting |-> {},
     uploads |-> 0, exports |-> 0, downloads |-> 0, alerts |-> 0]

Init ==
    /\ opts \in Options
    /\ pc = "idle"
    /\ svgElement = EmptyDoc
    /\ widthMM = Null
    /\ heightMM = Null
    /\ svgWidthMM = R(0)
    /\ svgHeightMM = R(0)
    /\ viewBox = << >>
    /\ usableW = R(0)
    /\ usableH = R(0)
    /\ cols = R(0)
    /\ rows = R(0)
    /\ totalTiles = R(0)
    /\ scaleX = R(0)
    /\ scaleY = R(0)
    /\ r = 0
    /\ c = 0
    /\ processedCount = 0
    /\ pdf = << >>
    /\ calls = << >>
    /\ pending = {}
    /\ result = {}
    /\ error = ""
    /\ earlier = << >>
    /\ ui = PageLoaded

\* a call made to a collaborator: its name, the tile it is for, a number;
\* err is the error a rejected call rejects with ("" otherwise)
Event(op, row, col, n) == [op |-> op, row |-> row, col |-> col, n |-> n, err |-> ""]

\* the errors the renderer may reject with
RenderErrors == { "render failed", "out of memory" }

\* entry of generateTiledPDF up to the first await
Call ==
    /\ pc = "idle"
    /\ IF MarginTooSmall(opts)
       THEN /\ pc' = "rejected"
            /\ error' = "Margin must be at least 10mm for proper labeling."
       ELSE /\ pc' = "importing"
            /\ error' = error
    /\ UNCHANGED <<opts, earlier, ui, locals, r, c, processedCount, pdf, calls, pending, result>>

\* cols and rows kept in variables of the module and added to by every
\* conversion: cols += Math.ceil(...), rows += Math.ceil(...)
Setup_AccumulatesGrid ==
    /\ pc = "importing"
    /\ svgElement' = [RemoveScripts(opts.svg) EXCEPT
                        !.viewBox = normalizedViewBox(RemoveScripts(opts.svg),
                                        getSvgDimensionsInMM(RemoveScripts(opts.svg)))]
    /\ widthMM' = parseUnit(opts.svg.width)
    /\ heightMM' = parseUnit(opts.svg.height)
    /\ svgWidthMM' = getSvgDimensionsInMM(RemoveScripts(opts.svg)).w
    /\ viewBox' = svgElement'.viewBox
    /\ svgHeightMM' = syncedHeight(svgWidthMM', viewBox')
    /\ usableW' = usable(opts.paperWidth, opts.margin)
    /\ usableH' = usable(opts.paperHeight, opts.margin)
    /\ cols' = RAdd(IF earlier = << >> THEN R(0) ELSE earlier[Len(earlier)].cols,
                    gridCount(svgWidthMM', usableW'))
    /\ rows' = RAdd(IF earlier = << >> THEN R(0) ELSE earlier[Len(earlier)].rows,
                    gridCount(svgHeightMM', usableH'))
    /\ totalTiles' = RMul(cols', rows')
    /\ pdf' = << NewPage(opts) >>
    /\ calls' = Append(calls, Event("jsPDF", 0, 0, R(0)))
    /\ scaleX' = RDiv(At(viewBox', 2), svgWidthMM')
    /\ scaleY' = RDiv(At(viewBox', 3), svgHeightMM')
    /\ processedCount' = 0
    /\ r' = 0
    /\ c' = 0
    /\ pc' = "loop"
    /\ UNCHANGED <<opts, earlier, ui, pending, result, error>>

\* from the imports to the head of the loops: parse, strip the scripts,
\* measure, lay out the grid, construct the document with its first page
Setup ==
    /\ pc = "importing"
    /\ svgElement' = [RemoveScripts(opts.svg) EXCEPT
                        !.viewBox = normalizedViewBox(RemoveScripts(opts.svg),
                                        getSvgDimensionsInMM(RemoveScripts(opts.svg)))]
    /\ widthMM' = parseUnit(opts.svg.width)
    /\ heightMM' = parseUnit(opts.svg.height)
    /\ svgWidthMM' = getSvgDimensionsInMM(RemoveScripts(opts.svg)).w
    /\ viewBox' = svgElement'.viewBox
    /\ svgHeightMM' = syncedHeight(svgWidthMM', viewBox')
    /\ usableW' = usable(opts.paperWidth, opts.margin)
    /\ usableH' = usable(opts.paperHeight, opts.margin)
    /\ cols' = gridCount(svgWidthMM', usableW')
    /\ rows' = gridCount(svgHeightMM', usableH')
    /\ totalTiles' = RMul(cols', rows')
    /\ pdf' = << NewPage(opts) >>
    /\ calls' = Append(calls, Event("jsPDF", 0, 0, R(0)))
    /\ scaleX' = RDiv(At(viewBox', 2), svgWidthMM')
    /\ scaleY' = RDiv(At(viewBox', 3), svgHeightMM')
    /\ processedCount' = 0
    /\ r' = 0
    /\ c' = 0
    /\ pc' = "loop"
    /\ UNCHANGED <<opts, earlier, ui, pending, result, error>>

\* the content placed at the page origin: {x: 0, y: 0, ...}
RenderRequest_AtOrigin(id, svg, tileVb, margin, uW, uH, row, col) ==
    [id |-> id, row |-> row, col |-> col, scripts |-> svg.scripts,
     viewBox |-> tileVb, box |-> <<R(0), R(0), uW, uH>>]

\* the request handed to svg2pdf for tile (row, col): the clone of the
\* document with the tile's viewBox, and the placement
\* {x: margin, y: margin, width: usableW, height: usableH}
RenderRequest(id, svg, tileVb, margin, uW, uH, row, col) ==
    [id |-> id, row |-> row, col |-> col, scripts |-> svg.scripts,
     viewBox |-> tileVb, box |-> <<R(margin), R(margin), uW, uH>>]

\* loop body up to the await: new page, progress, tile viewBox, svg2pdf call
BeginTile ==
    /\ pc = "loop"
    /\ LoopTest(r, rows)
    /\ LoopTest(c, cols)
    /\ processedCount < MaxTiles
    /\ processedCount' = processedCount + 1
    /\ pdf' = IF NeedsNewPage(r, c) THEN Append(pdf, NewPage(opts)) ELSE pdf
    /\ calls' = calls
         \o (IF NeedsNewPage(r, c) THEN << Event("addPage", r, c, R(0)) >> ELSE << >>)
         \o progressThenRender(
               IF opts.onProgress
               THEN << Event("onProgress", r + 1, c + 1,
                             progressPct(processedCount', totalTiles)) >>
               ELSE << >>,
               << Event("svg2pdf", r, c, R(processedCount')) >>)
    /\ pending' = pending \cup
         { RenderRequest(processedCount', svgElement,
                         tileViewBox(viewBox, usableW, usableH, scaleX, scaleY, r, c),
                         opts.margin, usableW, usableH, r, c) }
    /\ pc' = IF RenderIsAwaited THEN "awaitRender" ELSE "annotate"
    /\ UNCHANGED <<opts, earlier, ui, locals, r, c, result, error>>

\* svg2pdf draws the requested content on the document's current page and
\* its promise resolves
RenderResolve ==
    /\ \E req \in pending :
         /\ pending' = pending \ {req}
         /\ pdf' = DrawOn(pdf, << SvgOp(req) >>)
         /\ calls' = Append(calls, Event("resolved", req.row, req.col, R(req.id)))
    /\ pc' = IF pc = "awaitRender" THEN "annotate" ELSE pc
    /\ UNCHANGED <<opts, earlier, ui, locals, r, c, processedCount, result, error>>

\* the promise of svg2pdf rejects with an error: the await throws it out of
\* generateTiledPDF
RenderReject ==
    /\ \E req \in pending : \E err \in RenderErrors :
         /\ pending' = pending \ {req}
         /\ calls' = Append(calls, [Event("rejected", req.row, req.col, R(req.id))
                                      EXCEPT !.err = err])
         /\ IF pc = "awaitRender"
            THEN IF RejectionPropagates
                 THEN pc' = "failed" /\ error' = err
                 ELSE pc' = "annotate" /\ error' = error
            ELSE pc' = pc /\ error' = error
    /\ UNCHANGED <<opts, earlier, ui, locals, r, c, processedCount, pdf, result>>

\* rest of the loop body: border, label, corner marks, ruler, diamonds,
\* cut/glue labels; then c++
DrawAnnotations ==
    /\ pc = "annotate"
    /\ pdf' = DrawOn(pdf, tileAnnotations(R(opts.margin), usableW, usableH,
                                          rows, cols, r, c))
    /\ calls' = Append(calls, Event("annotated", r, c, R(Len(pdf))))
    /\ c' = c + 1
    /\ pc' = "loop"
    /\ UNCHANGED <<opts, earlier, ui, locals, r, processedCount, pending, result, error>>

\* the inner loop ends: r++ and c = 0
NextRow ==
    /\ pc = "loop"
    /\ LoopTest(r, rows)
    /\ ~LoopTest(c, cols)
    /\ r < MaxTiles
    /\ r' = r + 1
    /\ c' = 0
    /\ UNCHANGED <<opts, earlier, ui, pc, locals, processedCount, pdf, calls, pending, result, error>>

\* the outer loop ends: pdf.output('blob') and return
Finish ==
    /\ pc = "loop"
    /\ ~LoopTest(r, rows)
    /\ calls' = Append(calls, Event("output", 0, 0, R(0)))
    /\ result' = { [tiles |-> totalTiles, rows |-> rows, cols |-> cols,
                    pdfBlob |-> pdf] }
    /\ pc' = "done"
    /\ UNCHANGED <<opts, earlier, ui, locals, r, c, processedCount, pdf, pending, error>>

Next ==
    \/ Call
    \/ Setup
    \/ BeginTile
    \/ RenderResolve
    \/ RenderReject
    \/ DrawAnnotations
    \/ NextRow
    \/ Finish

Spec == Init /\ [][Next]_vars

(***************************************************************************)
(* The exported helpers parseUnit and getSvgDimensionsInMM called on their *)
(* own, on the width, height and viewBox attributes a document can carry:  *)
(* lengths in every unit, written in lower and upper case, zero, negative  *)
(* and fractional numbers, texts without a number, empty and missing       *)
(* attributes, viewBoxes of 3, 4 and 5 parts, parts that are no numbers.                           *)
(***************************************************************************)
Numbers == { R(0), R(1), R(10), R(96), Norm(5, 2), R(-3) }
Suffixes == { "mm", "cm", "in", "pt", "pc", "px", "", "em",
              "MM", "Cm", "IN", "Pt", "PC" }

\* the attribute values parseUnit is tried on
Lengths ==
    { Absent, Empty, NonNumeric(""), NonNumeric("mm") }
    \cup { Len_(x, u) : x \in Numbers, u \in Suffixes }
\* the values of the other attribute
OtherLengths == { Absent, Empty, NonNumeric(""), Mm(0), Mm(50), Len_(R(96), "") }

ViewBoxes ==
    { << >>,
      <<R(0), R(0), R(96), R(192)>>,
      <<R(5), R(5), R(0), R(48)>>,
      <<R(5), R(5), R(48), R(0)>>,
      <<R(0), R(0), NaN, R(48)>>,
      <<R(0), R(0), R(48), NaN>>,
      <<R(0), R(0), R(96)>>,
      <<R(0), R(0), R(96), R(192), R(7)>> }

MeasuredDocs ==
    { [width |-> w, height |-> h, viewBox |-> vb, scripts |-> 0] :
        w \in Lengths, h \in OtherLengths, vb \in ViewBoxes }
    \cup { [width |-> w, height |-> h, viewBox |-> vb, scripts |-> 0] :
        w \in OtherLengths, h \in Lengths, vb \in ViewBoxes }

InitMeasure ==
    /\ opts \in { MkOptions(d, <<210, 297>>, 10, FALSE) : d \in MeasuredDocs }
    /\ pc = "idle"
    /\ svgElement = EmptyDoc
    /\ widthMM = Null
    /\ heightMM = Null
    /\ svgWidthMM = R(0)
    /\ svgHeightMM = R(0)
    /\ viewBox = << >>
    /\ usableW = R(0)
    /\ usableH = R(0)
    /\ cols = R(0)
    /\ rows = R(0)
    /\ totalTiles = R(0)
    /\ scaleX = R(0)
    /\ scaleY = R(0)
    /\ r = 0
    /\ c = 0
    /\ processedCount = 0
    /\ pdf = << >>
    /\ calls = << >>
    /\ pending = {}
    /\ result = {}
    /\ error = ""
    /\ earlier = << >>
    /\ ui = PageLoaded

\* getSvgDimensionsInMM up to the two calls of parseUnit
MeasureParse ==
    /\ pc = "idle"
    /\ svgElement' = opts.svg
    /\ widthMM' = parseUnit(opts.svg.width)
    /\ heightMM' = parseUnit(opts.svg.height)
    /\ pc' = "parsed"
    /\ UNCHANGED <<opts, earlier, ui, svgWidthMM, svgHeightMM, viewBox, usableW, usableH, cols,
                   rows, totalTiles, scaleX, scaleY, r, c, processedCount, pdf,
                   calls, pending, result, error>>

\* the rest of getSvgDimensionsInMM: the viewBox, the defaults, the return
MeasureResolve ==
    /\ pc = "parsed"
    /\ svgWidthMM' = resolveDimensions(widthMM, heightMM, svgElement.viewBox).w
    /\ svgHeightMM' = resolveDimensions(widthMM, heightMM, svgElement.viewBox).h
    /\ pc' = "measured"
    /\ UNCHANGED <<opts, earlier, ui, svgElement, widthMM, heightMM, viewBox, usableW, usableH,
                   cols, rows, totalTiles, scaleX, scaleY, r, c, processedCount,
                   pdf, calls, pending, result, error>>

NextMeasure ==
    \/ MeasureParse
    \/ MeasureResolve

SpecMeasure == InitMeasure /\ [][NextMeasure]_vars

(***************************************************************************)
(* Several calls of generateTiledPDF one after the other, as the export    *)
(* button makes them: each call starts with fresh locals; nothing but the  *)
(* constant PX_TO_MM outlives a call.                                      *)
(***************************************************************************)
MaxConversions == 2

TwiceOptions ==
    { MkOptions(SquareDoc(9), <<24, 26>>, 10, FALSE),
      MkOptions(SquareDoc(9), <<24, 26>>, 10, TRUE),
      MkOptions(SquareDoc(9), <<24, 26>>, 9, FALSE),
      MkOptions(WideDoc(10), <<30, 22>>, 10, FALSE),
      MkOptions(WideDoc(10), <<24, 26>>, 10, FALSE) }

\* what a conversion that has ended leaves behind: its options, how it
\* ended, what it laid out and, if it returned, the document
Outcome ==
    [opts |-> opts, outcome |-> pc, rows |-> rows, cols |-> cols,
     usableW |-> usableW, usableH |-> usableH,
     pdf |-> IF pc = "done" THEN pdf ELSE << >>]

InitTwice ==
    /\ opts \in TwiceOptions
    /\ pc = "idle"
    /\ svgElement = EmptyDoc
    /\ widthMM = Null
    /\ heightMM = Null
    /\ svgWidthMM = R(0)
    /\ svgHeightMM = R(0)
    /\ viewBox = << >>
    /\ usableW = R(0)
    /\ usableH = R(0)
    /\ cols = R(0)
    /\ rows = R(0)
    /\ totalTiles = R(0)
    /\ scaleX = R(0)
    /\ scaleY = R(0)
    /\ r = 0
    /\ c = 0
    /\ processedCount = 0
    /\ pdf = << >>
    /\ calls = << >>
    /\ pending = {}
    /\ result = {}
    /\ error = ""
    /\ earlier = << >>
    /\ ui = PageLoaded

\* the call before has returned or thrown; generateTiledPDF is called again
CallAgain ==
    /\ pc \in {"done", "failed", "rejected"}
    /\ Len(earlier) + 1 < MaxConversions
    /\ earlier' = Append(earlier, Outcome)
    /\ opts' \in TwiceOptions
    /\ pc' = "idle"
    /\ svgElement' = EmptyDoc
    /\ widthMM' = Null
    /\ heightMM' = Null
    /\ svgWidthMM' = R(0)
    /\ svgHeightMM' = R(0)
    /\ viewBox' = << >>
    /\ usableW' = R(0)
    /\ usableH' = R(0)
    /\ cols' = R(0)
    /\ rows' = R(0)
    /\ totalTiles' = R(0)
    /\ scaleX' = R(0)
    /\ scaleY' = R(0)
    /\ r' = 0
    /\ c' = 0
    /\ processedCount' = 0
    /\ pdf' = << >>
    /\ calls' = << >>
    /\ pending' = {}
    /\ result' = {}
    /\ error' = ""
    /\ UNCHANGED ui

NextTwice ==
    \/ Call
    \/ Setup
    \/ BeginTile
    \/ RenderResolve
    \/ RenderReject
    \/ DrawAnnotations
    \/ NextRow
    \/ Finish
    \/ CallAgain

SpecTwice == InitTwice /\ [][NextTwice]_vars

(***************************************************************************)
(* The web application (main.ts).                                          *)
(***************************************************************************)
\* The handlers of the file input, the clear button and the export button.
\*   ui.currentSvgText, ui.currentSvgElement
\*                       the variables of those names: {} for null, else
\*                       the set of the one text held
\*   ui.btnExportDisabled, ui.progressInvisible
\*                       els.btnExport.disabled, the class 'invisible' of
\*                       els.progress
\*   ui.reading          the calls of handleFileUpload waiting at
\*                       await file.text()
\*   ui.converting       the calls of generatePDF waiting at
\*                       await generateTiledPDF(options)
\*   ui.uploads, ui.exports, ui.downloads, ui.alerts
\*                       the files chosen, the conversions started, the
\*                       documents downloaded, the alerts shown
MaxUploads == 2
MaxExports == 2

\* the texts of the files chosen: an empty file and two documents
Files == { "", "<svg>A</svg>", "<svg>B</svg>" }

\* the variables of the conversion, which the handlers of the page leave alone
conversion == <<opts, pc, locals, r, c, processedCount, pdf, calls, pending, result,
                error, earlier>>

InitUI ==
    /\ opts = MkOptions(EmptyDoc, <<210, 297>>, 10, TRUE)
    /\ pc = "idle"
    /\ svgElement = EmptyDoc
    /\ widthMM = Null
    /\ heightMM = Null
    /\ svgWidthMM = R(0)
    /\ svgHeightMM = R(0)
    /\ viewBox = << >>
    /\ usableW = R(0)
    /\ usableH = R(0)
    /\ cols = R(0)
    /\ rows = R(0)
    /\ totalTiles = R(0)
    /\ scaleX = R(0)
    /\ scaleY = R(0)
    /\ r = 0
    /\ c = 0
    /\ processedCount = 0
    /\ pdf = << >>
    /\ calls = << >>
    /\ pending = {}
    /\ result = {}
    /\ error = ""
    /\ earlier = << >>
    /\ ui = PageLoaded

\* !currentSvgText: null or the empty text
NoSvgText(u) == u.currentSvgText = {} \/ u.currentSvgText = {""}

\* handleFileUpload up to await file.text(): a file is chosen
handleFileUpload ==
    /\ ui.uploads < MaxUploads
    /\ \E text \in Files :
         ui' = [ui EXCEPT !.uploads = @ + 1,
                          !.reading = @ \cup {[id |-> ui.uploads + 1, text |-> text]}]
    /\ UNCHANGED conversion

\* the rest of handleFileUpload: the text is read, parsed and displayed
\* and the export button enabled
FileRead ==
    /\ \E f \in ui.reading :
         ui' = [ui EXCEPT !.reading = @ \ {f},
                          !.currentSvgText = {f.text},
                          !.currentSvgElement = {f.text},
                          !.btnExportDisabled = FALSE]
    /\ UNCHANGED conversion

\* clearFile
clearFile ==
    /\ ui' = [ui EXCEPT !.currentSvgText = {},
                        !.currentSvgElement = {},
                        !.btnExportDisabled = TRUE]
    /\ UNCHANGED conversion

\* generatePDF up to await generateTiledPDF(options); a disabled button
\* gives no click
generatePDF ==
    /\ ~ui.btnExportDisabled
    /\ ui.exports < MaxExports
    /\ ui' = IF NoSvgText(ui)
             THEN [ui EXCEPT !.exports = @ + 1]
             ELSE [ui EXCEPT !.exports = @ + 1,
                             !.progressInvisible = FALSE,
                             !.btnExportDisabled = TRUE,
                             !.converting = @ \cup {[id |-> ui.exports + 1,
                                                      svgText |-> ui.currentSvgText]}]
    /\ UNCHANGED conversion

\* generateTiledPDF has returned: the rest of the try block
ExportDone ==
    /\ \E cv \in ui.converting :
         ui' = [ui EXCEPT !.converting = @ \ {cv},
                          !.progressInvisible = TRUE,
                          !.btnExportDisabled = FALSE,
                          !.downloads = @ + 1]
    /\ UNCHANGED conversion

\* generateTiledPDF has thrown: the catch block
ExportFailed ==
    /\ \E cv \in ui.converting :
         ui' = [ui EXCEPT !.converting = @ \ {cv},
                          !.progressInvisible = TRUE,
                          !.btnExportDisabled = FALSE,
                          !.alerts = @ + 1]
    /\ UNCHANGED conversion

NextUI ==
    \/ handleFileUpload
    \/ FileRead
    \/ clearFile
    \/ generatePDF
    \/ ExportDone
    \/ ExportFailed

SpecUI == InitUI /\ [][NextUI]_vars

\* handleFileUpload, what it leaves in svgWidthMM and svgHeightMM: the
\* scripts removed, the size from the attributes (main.ts has its own copy
\* of getSvgDimensionsInMM, the same statements), the viewBox normalized,
\* the height synced to its aspect ratio
uploadedSize(svg) ==
    LET svgElement_ == RemoveScripts(svg)
        size == getSvgDimensionsInMM(svgElement_)
        viewBox_ == IF ~ViewBoxPresent(svgElement_)
                    THEN <<R(0), R(0), RDiv(size.w, PX_TO_MM), RDiv(size.h, PX_TO_MM)>>
                    ELSE svgElement_.viewBox
        vbAspect == RDiv(At(viewBox_, 2), At(viewBox_, 3))
    IN  [w |-> size.w, h |-> RDiv(size.w, vbAspect)]

\* updateGridPreview with a document loaded: nothing is written when a paper
\* side is not positive, the error text when a usable side is not positive,
\* else the statistics with cols and rows and the grid of rows x cols boxes
updateGridPreview(size, pW, pH, m) ==
    LET usableW_ == pW - (2 * m)
        usableH_ == pH - (2 * m)
    IN  IF pW <= 0 \/ pH <= 0
        THEN [stats |-> "(as before)", rows |-> R(0), cols |-> R(0)]
        ELSE IF usableW_ <= 0 \/ usableH_ <= 0
        THEN [stats |-> "Error: Margins larger than paper!", rows |-> R(0), cols |-> R(0)]
        ELSE [stats |-> "Creates tiles",
              rows |-> MathCeil(RDiv(size.h, R(usableH_))),
              cols |-> MathCeil(RDiv(size.w, R(usableW_)))]

(***************************************************************************)
(* Views of the state used by the properties.                              *)
(***************************************************************************)
\* the positions in calls of the calls named op
CallsOf(op) == { i \in DOMAIN calls : calls[i].op = op }
Count(op) == Cardinality(CallsOf(op))
\* the number of calls named op made before position i
CountBefore(op, i) == Cardinality({ j \in CallsOf(op) : j < i })

\* generateTiledPDF is past its set-up: the grid has been laid out
LaidOut == pc \in {"loop", "awaitRender", "annotate", "done", "failed"}

\* paperWidth - 2 * margin and paperHeight - 2 * margin, from the options
SpecUsableW == opts.paperWidth - 2 * opts.margin
SpecUsableH == opts.paperHeight - 2 * opts.margin
PositiveUsableArea == SpecUsableW > 0 /\ SpecUsableH > 0

\* k is the ceiling of x: an integer with k - 1 < x <= k
IsCeilOf(k, x) == k.d = 1 /\ RLess(RSub(k, R(1)), x) /\ RLeq(x, k)

\* the operations of one kind drawn on a page
OpsOn(page, op) == { i \in DOMAIN page.ops : page.ops[i].op = op }

\* the contents rendered on the pages: [page, row, col, x, y, w, h] of every
\* "svg" operation, (x, y, w, h) being the source region
Regions ==
    UNION { { [page |-> k, row |-> pdf[k].ops[i].text.row, col |-> pdf[k].ops[i].text.col,
               x |-> pdf[k].ops[i].a[1], y |-> pdf[k].ops[i].a[2],
               w |-> pdf[k].ops[i].a[3], h |-> pdf[k].ops[i].a[4]]
              : i \in OpsOn(pdf[k], "svg") } : k \in DOMAIN pdf }

\* the tiles whose tile label is printed on a page
LabelledTiles(page) ==
    { <<page.ops[i].text.row - 1, page.ops[i].text.col - 1>> :
        i \in { j \in OpsOn(page, "text") : page.ops[j].text.s = "Top | Tile: " } }

\* the tiles whose content is rendered on a page
RenderedTiles(page) ==
    { <<page.ops[i].text.row, page.ops[i].text.col>> : i \in OpsOn(page, "svg") }

\* the cut/glue labels printed on a page, each with the edge it is printed
\* at: rotated by 90 at the left edge, by 270 at the right edge, unrotated
\* above the middle of the content box at the top edge and below it at the
\* bottom edge
EdgeOfLabel(t) ==
    IF t.a[3] = R(90) THEN "left"
    ELSE IF t.a[3] = R(270) THEN "right"
    ELSE IF RLess(t.a[2], RAdd(R(opts.margin), RDiv(R(SpecUsableH), R(2)))) THEN "top"
    ELSE "bottom"
KindOfLabel(t) == IF t.text.s = "[ GLUE ]" THEN "glue" ELSE "cut"
EdgeLabels(page) ==
    { <<EdgeOfLabel(page.ops[i]), KindOfLabel(page.ops[i])>> :
        i \in { j \in OpsOn(page, "text") :
                  page.ops[j].text.s \in {"[ GLUE ]", "[ CUT  OUT ]"} } }

\* the pages whose annotations are drawn, each with its tile
Annotated == { [page |-> calls[i].n.n, row |-> calls[i].row, col |-> calls[i].col]
                 : i \in CallsOf("annotated") }

(***************************************************************************)
(* Properties.                                                             *)
(***************************************************************************)

\* C1: a call with margin < 10 rejects with the margin error before any
\* other work: no document is created, no page added, the renderer and the
\* progress callback are never called and nothing is returned.
C1_MarginRejectedFirst ==
    (opts.margin < 10 /\ pc # "idle") =>
        /\ pc = "rejected"
        /\ error = "Margin must be at least 10mm for proper labeling."
        /\ pdf = << >>
        /\ calls = << >>
        /\ pending = {}
        /\ result = {}

C1_Witness == opts.margin = 9 /\ pc = "rejected" /\ opts.onProgress

\* C2: with margin >= 10 and a usable width or height <= 0 the conversion
\* fails before any tile is processed: the renderer is never invoked, no
\* page is appended, the progress callback is not called, nothing is
\* returned.
C2_LayoutErrorBeforeTiles ==
    (opts.margin >= 10 /\ ~PositiveUsableArea) =>
        /\ Count("svg2pdf") = 0
        /\ Count("addPage") = 0
        /\ Count("onProgress") = 0
        /\ result = {}
        /\ pc # "done"

\* C3: with a positive usable area the returned grid is
\* cols = ceil(widthMM / usableW), rows = ceil(heightMM / usableH) and
\* tiles = rows * cols; 400 x 400 mm on 210 x 297 paper with margin 10
\* gives 3 columns, 2 rows, 6 tiles.
C3_GridIsCeiling ==
    \A res \in result :
        PositiveUsableArea =>
            /\ IsCeilOf(res.cols, RDiv(svgWidthMM, R(SpecUsableW)))
            /\ IsCeilOf(res.rows, RDiv(svgHeightMM, R(SpecUsableH)))
            /\ res.tiles = R(res.rows.n * res.cols.n)
            /\ (opts.svg = SquareDoc(400) /\ opts.paperWidth = 210
                /\ opts.paperHeight = 297 /\ opts.margin = 10)
               => (res.cols = R(3) /\ res.rows = R(2) /\ res.tiles = R(6))

C3_Witness ==
    \E res \in result : opts.svg = SquareDoc(400) /\ res.tiles = R(6)

\* C4: the grid covers the physical extent and is minimal:
\* cols * usableW >= widthMM > (cols - 1) * usableW and
\* rows * usableH >= heightMM > (rows - 1) * usableH.
C4_GridCoversAndIsMinimal ==
    LaidOut =>
        /\ RLeq(svgWidthMM, RMul(cols, usableW))
        /\ RLess(RMul(RSub(cols, R(1)), usableW), svgWidthMM)
        /\ RLeq(svgHeightMM, RMul(rows, usableH))
        /\ RLess(RMul(RSub(rows, R(1)), usableH), svgHeightMM)

\* the instructions the rule of the border resolver gives tile (row, col):
\* cut at the top and left unless first, glue at the right and bottom
\* unless last (last: no tile follows in the grid)
ExpectedBorders(row, col) ==
    [top    |-> IF row = 0 THEN "none" ELSE "cut",
     right  |-> IF RLess(R(col + 1), cols) THEN "glue" ELSE "none",
     bottom |-> IF RLess(R(row + 1), rows) THEN "glue" ELSE "none",
     left   |-> IF col = 0 THEN "none" ELSE "cut"]

\* the rows and columns of a finite grid of at least 1 x 1
GridRows == IF IsFinite(rows) THEN 0 .. (rows.n - 1) ELSE {}
GridCols == IF IsFinite(cols) THEN 0 .. (cols.n - 1) ELSE {}

\* C5: for every grid of at least 1 x 1 and every position in it,
\* getTileBorderInstructions gives top = none iff row = 0 else cut, left =
\* none iff col = 0 else cut, right = none iff col = totalCols - 1 else
\* glue, bottom = none iff row = totalRows - 1 else glue; the labels drawn
\* on each page are those of its tile.
C5_BorderInstructions ==
    LaidOut =>
        /\ \A row \in GridRows : \A col \in GridCols :
             LET b == getTileBorderInstructions(R(row), R(col), rows, cols) IN
             /\ b.top    = (IF row = 0 THEN "none" ELSE "cut")
             /\ b.left   = (IF col = 0 THEN "none" ELSE "cut")
             /\ b.right  = (IF col = cols.n - 1 THEN "none" ELSE "glue")
             /\ b.bottom = (IF row = rows.n - 1 THEN "none" ELSE "glue")
             /\ (rows = R(1) /\ cols = R(1)) =>
                  b = [top |-> "none", right |-> "none", bottom |-> "none", left |-> "none"]
        /\ \A a \in Annotated :
             EdgeLabels(pdf[a.page]) =
               { <<e, ExpectedBorders(a.row, a.col)[e]>> :
                   e \in { f \in {"top", "right", "bottom", "left"} :
                             ExpectedBorders(a.row, a.col)[f] # "none" } }

C5_Witness ==
    /\ rows = R(3)
    /\ cols = R(3)
    /\ \E a \in Annotated : a.row = 1 /\ a.col = 1
    /\ pc = "done"

\* C6: on the pages drawn, a shared edge carries glue on the left/upper
\* tile (its right/bottom edge) and cut on the right/lower tile (its
\* left/top edge); an edge is unlabelled exactly when it lies on the outer
\* boundary; no edge is cut at the right or bottom, or glued at the left
\* or top.
C6_CrossTileConsistency ==
    /\ \A a \in Annotated :
         LET L == EdgeLabels(pdf[a.page]) IN
         /\ L \subseteq { <<"right", "glue">>, <<"bottom", "glue">>,
                          <<"left", "cut">>, <<"top", "cut">> }
         /\ (<<"left", "cut">> \in L) <=> (a.col > 0)
         /\ (<<"top", "cut">> \in L) <=> (a.row > 0)
         /\ (<<"right", "glue">> \in L) <=> RLess(R(a.col + 1), cols)
         /\ (<<"bottom", "glue">> \in L) <=> RLess(R(a.row + 1), rows)
    /\ \A a \in Annotated : \A b \in Annotated :
         /\ (b.row = a.row /\ b.col = a.col + 1) =>
              /\ <<"right", "glue">> \in EdgeLabels(pdf[a.page])
              /\ <<"left", "cut">> \in EdgeLabels(pdf[b.page])
         /\ (b.col = a.col /\ b.row = a.row + 1) =>
              /\ <<"bottom", "glue">> \in EdgeLabels(pdf[a.page])
              /\ <<"top", "cut">> \in EdgeLabels(pdf[b.page])

C6_Witness ==
    /\ pc = "done"
    /\ \E a \in Annotated : \E b \in Annotated : \E d \in Annotated :
         /\ b.row = a.row /\ b.col = a.col + 1
         /\ d.col = a.col /\ d.row = a.row + 1

\* C7: the tile source regions partition the native coordinate box: tile
\* (row, col) has origin (vx + col*usableW*scaleX, vy + row*usableH*scaleY)
\* and size (usableW*scaleX, usableH*scaleY), adjacent tiles abut, no two
\* tiles overlap, and the regions of the rows*cols tiles of a finished
\* conversion contain the whole box (vx, vy, vw, vh).
C7_RegionsPartitionBox ==
    LET vx == At(viewBox, 0)
        vy == At(viewBox, 1)
        vw == At(viewBox, 2)
        vh == At(viewBox, 3)
        sX == RDiv(vw, svgWidthMM)
        sY == RDiv(vh, svgHeightMM)
        uW == R(SpecUsableW)
        uH == R(SpecUsableH)
    IN  /\ \A t \in Regions :
             /\ REq(t.x, RAdd(vx, RMul(RMul(R(t.col), uW), sX)))
             /\ REq(t.y, RAdd(vy, RMul(RMul(R(t.row), uH), sY)))
             /\ REq(t.w, RMul(uW, sX))
             /\ REq(t.h, RMul(uH, sY))
        /\ \A s \in Regions : \A t \in Regions :
             /\ (t.row = s.row /\ t.col = s.col + 1) => REq(RAdd(s.x, s.w), t.x)
             /\ (t.col = s.col /\ t.row = s.row + 1) => REq(RAdd(s.y, s.h), t.y)
             /\ (<<s.row, s.col>> # <<t.row, t.col>>) =>
                  \/ RLeq(RAdd(s.x, s.w), t.x) \/ RLeq(RAdd(t.x, t.w), s.x)
                  \/ RLeq(RAdd(s.y, s.h), t.y) \/ RLeq(RAdd(t.y, t.h), s.y)
        /\ (result # {}) =>
             /\ \E s \in Regions : RLeq(s.x, vx) /\ RLeq(s.y, vy)
             /\ \E s \in Regions : /\ RLeq(RAdd(vx, vw), RAdd(s.x, s.w))
                                   /\ RLeq(RAdd(vy, vh), RAdd(s.y, s.h))
             /\ { <<s.row, s.col>> : s \in Regions } = GridRows \X GridCols

\* C8: in a successful conversion the first tile is on the initial page,
\* addPage is called exactly rows*cols - 1 times and the final document has
\* exactly rows*cols pages.
C8_PagesAppended ==
    \A res \in result :
        /\ <<0, 0>> \in RenderedTiles(res.pdfBlob[1])
        /\ REq(R(Count("addPage")), RSub(RMul(res.rows, res.cols), R(1)))
        /\ REq(R(Len(res.pdfBlob)), RMul(res.rows, res.cols))

\* page k (from 1) is the page of tile (row, col) in row-major order
IsRowMajorPage(k, row, col) ==
    IF IsFinite(cols)
    THEN col >= 0 /\ col < cols.n /\ row >= 0 /\ k - 1 = row * cols.n + col
    ELSE row = 0 /\ col = k - 1

\* the content and the annotations of exactly one tile are on the page
PageComplete(page) ==
    /\ RenderedTiles(page) # {}
    /\ RenderedTiles(page) = LabelledTiles(page)

C10_StrictlySequential ==
    /\ Cardinality(pending) <= 1
    /\ \A i \in CallsOf("annotated") :
         \E j \in CallsOf("resolved") :
             j < i /\ calls[j].row = calls[i].row /\ calls[j].col = calls[i].col
    /\ \A k \in DOMAIN pdf :
         (pdf[k].ops # << >>) => pdf[k].ops[1].op = "svg"
    /\ \A i \in CallsOf("addPage") \cup CallsOf("svg2pdf") :
         CountBefore("annotated", i) = CountBefore("svg2pdf", i)

C10_Witness ==
    /\ pc = "awaitRender"
    /\ Cardinality(pending) = 1
    /\ Count("annotated") = 2
    /\ Count("svg2pdf") = 3

\* the calls named op made for tile (row, col)
CallsFor(op, row, col) ==
    { j \in CallsOf(op) : calls[j].row = row /\ calls[j].col = col }

\* the progress call at position i of calls is the call made for the tile
\* whose render request is the very next call
NextIsRenderOfSameTile(i) ==
    /\ i < Len(calls)
    /\ calls[i + 1].op = "svg2pdf"
    /\ calls[i].row = calls[i + 1].row + 1
    /\ calls[i].col = calls[i + 1].col + 1

\* C11: a supplied progress callback is invoked immediately before each
\* tile's render request is issued, with nothing in between, once per tile,
\* and never after the render request of that tile.
C11_ProgressBeforeRender ==
    /\ \A i \in CallsOf("onProgress") :
         /\ opts.onProgress
         /\ NextIsRenderOfSameTile(i)
         /\ \A j \in CallsFor("svg2pdf", calls[i].row - 1, calls[i].col - 1) : i < j
    /\ opts.onProgress =>
         /\ \A j \in CallsOf("svg2pdf") :
              j > 1 /\ calls[j - 1].op = "onProgress" /\ NextIsRenderOfSameTile(j - 1)
         /\ Count("onProgress") = Count("svg2pdf")

C11_Witness ==
    /\ opts.onProgress
    /\ pc = "done"
    /\ Count("onProgress") = 4

\* k is x rounded as Math.round rounds: the integer with x - 1/2 < k <= x + 1/2
IsRoundOf(k, x) ==
    k.d = 1 /\ RLess(RSub(x, Dec(5)), k) /\ RLeq(k, RAdd(x, Dec(5)))

\* C12 as stated: the progress callback of a tile is invoked after the
\* render request of that tile is issued, with percent =
\* round(100 * completedCount / totalTiles), completedCount being the number
\* of render requests issued so far.
C12_ProgressAfterRequest ==
    \A i \in CallsOf("onProgress") :
        /\ \E j \in CallsFor("svg2pdf", calls[i].row - 1, calls[i].col - 1) : j < i
        /\ IsRoundOf(calls[i].n,
                     RDiv(R(100 * CountBefore("svg2pdf", i)), totalTiles))

\* C12 amended: the progress callback of a tile is invoked immediately
\* before the render request of that tile is issued, with percent =
\* round(100 * startedCount / totalTiles), startedCount being the number of
\* tiles started so far, this one included (the render requests issued so
\* far plus one), and with a message naming that tile as (row+1)-(col+1);
\* for a finite grid the percent is an integer of 1..100 and is 100 for the
\* last tile.
C12_ProgressPercent ==
    \A i \in CallsOf("onProgress") :
        /\ NextIsRenderOfSameTile(i)
        /\ IsRoundOf(calls[i].n,
                     RDiv(R(100 * (CountBefore("svg2pdf", i) + 1)), totalTiles))
        /\ IsFinite(totalTiles) =>
             /\ RLeq(R(1), calls[i].n) /\ RLeq(calls[i].n, R(100))
             /\ (R(CountBefore("svg2pdf", i) + 1) = totalTiles) => calls[i].n = R(100)

C12_Witness ==
    /\ pc = "done"
    /\ totalTiles = R(3)
    /\ \E i \in CallsOf("onProgress") :
         calls[i].n = R(67) /\ calls[i].row = 1 /\ calls[i].col = 2

\* C13: when the renderer rejects for a tile, generateTiledPDF rejects with
\* that error and does nothing more: the rejection is the last thing that
\* happens (no later render request, no page appended, no annotation, no
\* serialization), the failing tile has exactly one render request and no
\* annotation, its page is left empty, and no result is returned.
C13_RenderErrorAborts ==
    \A i \in CallsOf("rejected") :
        /\ pc = "failed"
        /\ error = calls[i].err
        /\ i = Len(calls)
        /\ pending = {}
        /\ result = {}
        /\ Count("output") = 0
        /\ Count("rejected") = 1
        /\ CallsFor("annotated", calls[i].row, calls[i].col) = {}
        /\ Cardinality(CallsFor("svg2pdf", calls[i].row, calls[i].col)) = 1
        /\ Len(pdf) = calls[i].n.n
        /\ pdf[Len(pdf)].ops = << >>

C13_Witness ==
    /\ pc = "failed"
    /\ error = "out of memory"
    /\ Count("svg2pdf") = 3
    /\ Count("annotated") = 2
    /\ opts.onProgress

C15_ScriptsRemoved ==
    /\ \A req \in pending : req.scripts = 0
    /\ (LaidOut \/ Count("svg2pdf") > 0) => svgElement.scripts = 0

C15_Witness ==
    /\ opts.svg.scripts = 2
    /\ Count("svg2pdf") = 2
    /\ \E req \in pending : req.row = 0 /\ req.col = 1

(***************************************************************************)
(* Properties of parseUnit and getSvgDimensionsInMM (SpecMeasure).         *)
(***************************************************************************)
\* parseUnit has been applied to the two attributes
Parsed == pc \in {"parsed", "measured"}

\* a text parseFloat reads a number from
Numeric(val) == val.present /\ ~val.empty /\ ~IsNaN(val.num)
\* a missing attribute, an empty text, a text without a number
Unparseable(val) == ~val.present \/ val.empty \/ IsNaN(val.num)

\* millimetres per unit, the suffix read without regard to case; every other
\* suffix counts as pixels
FactorOf(u) ==
    CASE u \in {"mm", "MM"} -> R(1)
      [] u \in {"cm", "Cm"} -> R(10)
      [] u \in {"in", "IN"} -> Norm(254, 10)
      [] u \in {"pt", "Pt"} -> Norm(254, 720)
      [] u \in {"pc", "PC"} -> Norm(254, 60)
      [] OTHER -> Norm(254, 960)

\* the length a numeric attribute states, in mm
LengthMM(val) == RMul(val.num, FactorOf(val.suffix))

\* C16: parseUnit gives x times the factor of the unit for a numeric text
\* x<unit>: mm 1, cm 10, in 25.4, pt 25.4/72, pc 25.4/6, no or any other
\* suffix 25.4/96, upper or lower case; "10cm" is 100, "1in" is 25.4, "96"
\* is 25.4.
C16_ParseUnitFactors ==
    Parsed =>
        /\ Numeric(opts.svg.width) => widthMM = Num(LengthMM(opts.svg.width))
        /\ Numeric(opts.svg.height) => heightMM = Num(LengthMM(opts.svg.height))
        /\ (opts.svg.width = Len_(R(10), "cm")) => widthMM = Num(R(100))
        /\ (opts.svg.width = Len_(R(1), "in")) => widthMM = Num(Norm(254, 10))
        /\ (opts.svg.width = Len_(R(96), "")) => widthMM = Num(Norm(254, 10))

C16_Witness ==
    /\ pc = "measured"
    /\ opts.svg.width = Len_(R(10), "Cm")
    /\ widthMM = Num(R(100))
    /\ opts.svg.height = Len_(R(96), "")
    /\ heightMM = Num(Norm(254, 10))

\* C17 as stated: parseUnit gives null for every missing or unparseable
\* input: an absent attribute, an empty text, a text without a number.
C17_NullForUnparseable ==
    Parsed =>
        /\ Unparseable(opts.svg.width) => widthMM = Null
        /\ Unparseable(opts.svg.height) => heightMM = Null

\* the value an axis falls back to: the extent of a viewBox of 4 numbers in
\* pixels, the default when there is no such viewBox or the extent is zero
\* or not a number
Fallback(vb, i, default) ==
    IF Len(vb) = 4 /\ vb[i] # R(0) /\ ~IsNaN(vb[i]) THEN RMul(vb[i], Norm(254, 960)) ELSE R(default)

\* C17 amended: parseUnit gives null for an absent attribute and for an
\* empty text, and NaN for a text without a number; never zero and never
\* another number; in each of these cases getSvgDimensionsInMM applies the
\* fallback of the axis.
C17_UnknownForUnparseable ==
    Parsed =>
        /\ (~opts.svg.width.present \/ opts.svg.width.empty) => widthMM = Null
        /\ (~opts.svg.height.present \/ opts.svg.height.empty) => heightMM = Null
        /\ (opts.svg.width.present /\ ~opts.svg.width.empty /\ IsNaN(opts.svg.width.num))
             => (~widthMM.isNull /\ IsNaN(widthMM.v))
        /\ (opts.svg.height.present /\ ~opts.svg.height.empty /\ IsNaN(opts.svg.height.num))
             => (~heightMM.isNull /\ IsNaN(heightMM.v))
        /\ (pc = "measured" /\ Unparseable(opts.svg.width))
             => svgWidthMM = Fallback(opts.svg.viewBox, 3, 210)
        /\ (pc = "measured" /\ Unparseable(opts.svg.height))
             => svgHeightMM = Fallback(opts.svg.viewBox, 4, 297)

C17_Witness ==
    /\ pc = "measured"
    /\ opts.svg.width = NonNumeric("mm")
    /\ IsNaN(widthMM.v)
    /\ opts.svg.height = Absent
    /\ heightMM = Null
    /\ opts.svg.viewBox = <<R(0), R(0), R(96)>>
    /\ svgWidthMM = R(210)
    /\ svgHeightMM = R(297)

\* C18 as stated: each axis is resolved on its own by explicit attribute,
\* then viewBox extent times 25.4/96, then A4 default: a known explicit
\* width (height) is returned unchanged; an axis absent or unknown takes the
\* viewBox value when a viewBox of 4 numbers is present; otherwise 210
\* (297); with nothing present the result is (210, 297).
C18_DimensionChain ==
    (pc = "measured") =>
        LET vb == opts.svg.viewBox IN
        /\ svgWidthMM =
             (IF Numeric(opts.svg.width) THEN LengthMM(opts.svg.width)
              ELSE IF Len(vb) = 4 THEN RMul(vb[3], Norm(254, 960)) ELSE R(210))
        /\ svgHeightMM =
             (IF Numeric(opts.svg.height) THEN LengthMM(opts.svg.height)
              ELSE IF Len(vb) = 4 THEN RMul(vb[4], Norm(254, 960)) ELSE R(297))
        /\ (opts.svg = EmptyDoc) => (svgWidthMM = R(210) /\ svgHeightMM = R(297))

\* a numeric attribute other than zero
KnownNonZero(val) == Numeric(val) /\ val.num # R(0)

\* C18 amended: each axis is resolved on its own: a known explicit width
\* (height) other than zero is returned unchanged whatever the other axis
\* and the viewBox are; an axis absent, unknown or zero takes the viewBox
\* extent times 25.4/96 when a viewBox of 4 numbers is present and that
\* extent is not zero; otherwise width is 210 and height is 297; with
\* nothing present the result is (210, 297).
C18_DimensionChainNonZero ==
    (pc = "measured") =>
        /\ svgWidthMM =
             (IF KnownNonZero(opts.svg.width) THEN LengthMM(opts.svg.width)
              ELSE Fallback(opts.svg.viewBox, 3, 210))
        /\ svgHeightMM =
             (IF KnownNonZero(opts.svg.height) THEN LengthMM(opts.svg.height)
              ELSE Fallback(opts.svg.viewBox, 4, 297))
        /\ (opts.svg = EmptyDoc) => (svgWidthMM = R(210) /\ svgHeightMM = R(297))

C18_Witness ==
    /\ pc = "measured"
    /\ opts.svg.width = Len_(R(10), "in")
    /\ opts.svg.height = Empty
    /\ opts.svg.viewBox = <<R(0), R(0), R(96), R(192)>>
    /\ svgWidthMM = R(254)
    /\ svgHeightMM = Norm(508, 10)

(***************************************************************************)
(* Properties of the annotations (Spec).                                   *)
(***************************************************************************)
Edges == {"top", "right", "bottom", "left"}

\* the midpoint of an edge of the content box, on the page
EdgeMid(e) ==
    LET m == R(opts.margin)
        halfW == RDiv(R(SpecUsableW), R(2))
        halfH == RDiv(R(SpecUsableH), R(2))
    IN  CASE e = "top"    -> << RAdd(m, halfW), m >>
          [] e = "bottom" -> << RAdd(m, halfW), RAdd(m, R(SpecUsableH)) >>
          [] e = "left"   -> << m, RAdd(m, halfH) >>
          [] e = "right"  -> << RAdd(m, R(SpecUsableW)), RAdd(m, halfH) >>

\* the edges of tile (row, col) across which the grid has another tile
NeighbourEdges(row, col) ==
    { e \in Edges :
        CASE e = "top"    -> row > 0
          [] e = "bottom" -> RLess(R(row), RSub(rows, R(1)))
          [] e = "left"   -> col > 0
          [] e = "right"  -> RLess(R(col), RSub(cols, R(1))) }

\* the edges of tile (row, col) whose border instruction is not 'none'
InstructedEdges(row, col) ==
    { e \in Edges : getTileBorderInstructions(R(row), R(col), rows, cols)[e] # "none" }

\* C19: on the page of every tile there is one diamond per edge that has a
\* neighbouring tile, centred at the midpoint of that edge, and no other
\* diamond; the edges with a diamond are those whose border instruction is
\* not 'none'; a 1 x 1 grid has no diamond.
C19_DiamondsOnSharedEdges ==
    \A a \in Annotated :
        LET page == pdf[a.page]
            D == OpsOn(page, "diamond")
            E == NeighbourEdges(a.row, a.col)
        IN  /\ Cardinality(D) = Cardinality(E)
            /\ \A e \in E : \E i \in D :
                 << page.ops[i].a[1], page.ops[i].a[2] >> = EdgeMid(e)
            /\ \A i \in D : \E e \in E :
                 << page.ops[i].a[1], page.ops[i].a[2] >> = EdgeMid(e)
            /\ E = InstructedEdges(a.row, a.col)
            /\ (rows = R(1) /\ cols = R(1)) => D = {}

C19_Witness ==
    /\ pc = "done"
    /\ rows = R(3)
    /\ cols = R(3)
    /\ Cardinality(OpsOn(pdf[5], "diamond")) = 4
    /\ Cardinality(OpsOn(pdf[1], "diamond")) = 2
    /\ Cardinality(OpsOn(pdf[9], "diamond")) = 2

\* the rotation of the label of an edge, in degrees
RotationOf(e) ==
    CASE e = "top" -> 0 [] e = "bottom" -> 0 [] e = "left" -> 90 [] e = "right" -> 270
\* the text and the icon of an instruction
TextOf(instr) == IF instr = "glue" THEN "[ GLUE ]" ELSE "[ CUT  OUT ]"
IconOf(instr) == IF instr = "glue" THEN "drop" ELSE "scissors"

\* C20: on the page of every tile, each edge whose border instruction is
\* not 'none' has exactly one text label, the glue text for 'glue' and the
\* cut-out text for 'cut', rotated by 0 at the top and bottom, 90 at the
\* left and 270 at the right, with one icon of its kind; an edge with
\* instruction 'none' has no label and no icon.
C20_EdgeLabels ==
    \A a \in Annotated :
        LET page == pdf[a.page]
            b == getTileBorderInstructions(R(a.row), R(a.col), rows, cols)
            E == InstructedEdges(a.row, a.col)
            T == { i \in OpsOn(page, "text") :
                     page.ops[i].text.s \in {"[ GLUE ]", "[ CUT  OUT ]"} }
            I == OpsOn(page, "scissors") \cup OpsOn(page, "drop")
        IN  /\ Cardinality(T) = Cardinality(E)
            /\ { << page.ops[i].text.s, page.ops[i].a[3] >> : i \in T }
                 = { << TextOf(b[e]), R(RotationOf(e)) >> : e \in E }
            /\ Cardinality(I) = Cardinality(E)
            /\ { << page.ops[i].op, page.ops[i].a[3] >> : i \in I }
                 = { << IconOf(b[e]), R(RotationOf(e)) >> : e \in E }

C20_Witness ==
    /\ pc = "done"
    /\ rows = R(2)
    /\ cols = R(3)
    /\ \E i \in OpsOn(pdf[5], "text") :
         pdf[5].ops[i].text.s = "[ CUT  OUT ]" /\ pdf[5].ops[i].a[3] = R(90)
    /\ \E i \in OpsOn(pdf[5], "text") :
         pdf[5].ops[i].text.s = "[ GLUE ]" /\ pdf[5].ops[i].a[3] = R(270)
    /\ Cardinality(OpsOn(pdf[5], "scissors")) = 2
    /\ Cardinality(OpsOn(pdf[5], "drop")) = 1

\* the number of times a text is printed on the pages of a document
TextCount(pages, t) ==
    Cardinality(UNION { { <<k, i>> : i \in { j \in OpsOn(pages[k], "text") :
                                               pages[k].ops[j].text.s = t } }
                        : k \in DOMAIN pages })

\* C21: in the document of a successful conversion the number of glue
\* labels equals the number of cut-out labels, and both equal the number of
\* interior shared edges rows*(cols-1) + cols*(rows-1); at least 4 of each
\* when the grid is 2 x 2 or larger.
C21_GlueEqualsCut ==
    \A res \in result :
        LET glue == TextCount(res.pdfBlob, "[ GLUE ]")
            cut == TextCount(res.pdfBlob, "[ CUT  OUT ]")
            interior == RAdd(RMul(res.rows, RSub(res.cols, R(1))),
                             RMul(res.cols, RSub(res.rows, R(1))))
        IN  /\ glue = cut
            /\ REq(R(glue), interior)
            /\ (RLeq(R(2), res.rows) /\ RLeq(R(2), res.cols)) => (glue >= 4 /\ cut >= 4)

\* the six lines of the ruler of a page with the margin m: the horizontal
\* line of 50 mm from x = m, 2 mm above the content box, the vertical line
\* of 50 mm from y = m, 2 mm left of it, and their end-ticks of 3 mm
RulerLines(m) ==
    { <<m, RSub(m, R(2)), RAdd(m, R(50)), RSub(m, R(2))>>,
      <<m, RSub(m, Dec(35)), m, RSub(m, Dec(5))>>,
      <<RAdd(m, R(50)), RSub(m, Dec(35)), RAdd(m, R(50)), RSub(m, Dec(5))>>,
      <<RSub(m, R(2)), m, RSub(m, R(2)), RAdd(m, R(50))>>,
      <<RSub(m, Dec(35)), m, RSub(m, Dec(5)), m>>,
      <<RSub(m, Dec(35)), RAdd(m, R(50)), RSub(m, Dec(5)), RAdd(m, R(50))>> }

\* the point (x, y) lies outside the content box, at non-negative coordinates
OutsideBox(x, y) ==
    /\ RLeq(R(0), x)
    /\ RLeq(R(0), y)
    /\ \/ RLess(x, R(opts.margin))
       \/ RLess(y, R(opts.margin))
       \/ RLess(R(opts.margin + SpecUsableW), x)
       \/ RLess(R(opts.margin + SpecUsableH), y)

\* C22: on the page of every tile the ruler is drawn exactly once: each of
\* its six lines once and the "5cm" text twice, the two long lines 50 mm
\* whatever the document, paper and tile, anchored to the content box (from
\* x = margin, 2 mm above the box; from y = margin, 2 mm left of it); every
\* end of every ruler line lies outside the content box at non-negative
\* page coordinates.
C22_RulerOncePerTile ==
    LET ruler == RulerLines(R(opts.margin))
        \* v - u = 50
        Is50(u, v) == v.n * u.d - u.n * v.d = 50 * u.d * v.d
        IsLong(o) == \/ o.a[1] = o.a[3] /\ Is50(o.a[2], o.a[4])
                     \/ o.a[2] = o.a[4] /\ Is50(o.a[1], o.a[3])
    IN  /\ Annotated # {} =>
             \A l \in ruler : OutsideBox(l[1], l[2]) /\ OutsideBox(l[3], l[4])
        /\ \A a \in Annotated :
             LET ops == pdf[a.page].ops
                 drawn == SelectSeq(ops, LAMBDA o : o.op = "line" /\ o.a \in ruler)
             IN  /\ Len(drawn) = 6
                 /\ { drawn[i].a : i \in 1..6 } = ruler
                 /\ Len(SelectSeq(drawn, IsLong)) = 2
                 /\ Len(SelectSeq(ops, LAMBDA o : o.op = "line" /\ IsLong(o))) = 2
                 /\ Len(SelectSeq(ops, LAMBDA o : o.op = "text" /\ o.text.s = "5cm")) = 2

C22_Witness ==
    /\ pc = "done"
    /\ opts.margin = 11
    /\ opts.svg = WideDoc(7)
    /\ Cardinality(Annotated) >= 4
    /\ \E i \in OpsOn(pdf[4], "line") :
         pdf[4].ops[i].a = <<R(11), R(9), R(61), R(9)>>

\* C23: on every page the target box of the rendered content and the
\* dashed border are the same rectangle, at (margin, margin) and of size
\* usableW x usableH, the same on all pages; its far corner is
\* (paperWidth - margin, paperHeight - margin), inside the page.
C23_BoxIsBorder ==
    LET box == << R(opts.margin), R(opts.margin), R(SpecUsableW), R(SpecUsableH) >>
    IN  /\ \A k \in DOMAIN pdf :
             /\ \A i \in OpsOn(pdf[k], "svg") : SubSeq(pdf[k].ops[i].a, 5, 8) = box
             /\ \A i \in OpsOn(pdf[k], "rect") : pdf[k].ops[i].a = box
        /\ \A a \in Annotated :
             /\ Cardinality(OpsOn(pdf[a.page], "svg")) = 1
             /\ Cardinality(OpsOn(pdf[a.page], "rect")) = 1
             /\ pdf[a.page].format = <<opts.paperWidth, opts.paperHeight>>
             /\ RAdd(box[1], box[3]) = R(opts.paperWidth - opts.margin)
             /\ RAdd(box[2], box[4]) = R(opts.paperHeight - opts.margin)
             /\ RLeq(R(0), box[1]) /\ RLeq(RAdd(box[1], box[3]), R(opts.paperWidth))
             /\ RLeq(R(0), box[2]) /\ RLeq(RAdd(box[2], box[4]), R(opts.paperHeight))

C23_Witness ==
    /\ pc = "done"
    /\ opts.margin = 10
    /\ opts.paperWidth = 30
    /\ Cardinality(Annotated) >= 3
    /\ \E i \in OpsOn(pdf[3], "rect") : pdf[3].ops[i].a = <<R(10), R(10), R(10), R(2)>>
    /\ \E i \in OpsOn(pdf[3], "svg") :
         SubSeq(pdf[3].ops[i].a, 5, 8) = <<R(10), R(10), R(10), R(2)>>

\* the tile labels printed on a page, as printed (one-based)
TileLabelsOn(page) ==
    { i \in OpsOn(page, "text") : page.ops[i].text.s = "Top | Tile: " }

\* the k-th call of the progress callback, if there is one
ProgressOfPage(k) ==
    { i \in CallsOf("onProgress") : CountBefore("onProgress", i) = k - 1 }

\* C24: every page of the returned document carries exactly one tile label,
\* (row+1)-(col+1) of its own tile: the label of page k (from 0) names tile
\* (k div cols, k mod cols), no two pages carry the same index, and the
\* index is the one given in the progress message of that tile.
C24_TileLabels ==
    /\ \A k \in DOMAIN pdf :
         /\ Cardinality(TileLabelsOn(pdf[k])) <= 1
         /\ \A i \in TileLabelsOn(pdf[k]) :
              /\ IsRowMajorPage(k, pdf[k].ops[i].text.row - 1, pdf[k].ops[i].text.col - 1)
              /\ \A j \in ProgressOfPage(k) :
                   /\ calls[j].row = pdf[k].ops[i].text.row
                   /\ calls[j].col = pdf[k].ops[i].text.col
              /\ opts.onProgress => ProgressOfPage(k) # {}
         /\ \A l \in DOMAIN pdf :
              (l # k /\ LabelledTiles(pdf[l]) # {}) =>
                  LabelledTiles(pdf[l]) # LabelledTiles(pdf[k])
    /\ \A res \in result :
         \A k \in DOMAIN res.pdfBlob : Cardinality(TileLabelsOn(res.pdfBlob[k])) = 1

\* the calls made for the tiles, without the page appends and the progress
\* messages: what the composer does between leaving and re-entering Idle
TileSteps == SelectSeq(calls, LAMBDA e : e.op \in {"svg2pdf", "resolved", "rejected", "annotated"})

\* C25: the composer goes Idle -> (RenderingContent -> DrawingAnnotations
\* per tile) -> Idle: the steps of the tiles come in rounds of render
\* request, render completion, annotations, each round for one tile, and
\* nothing follows the return; a conversion that has returned has rendered
\* each of the rows * cols tiles exactly once, annotated each exactly once
\* and serialized exactly once.
C25_ComposerLifecycle ==
    /\ \A i \in DOMAIN TileSteps :
         LET e == TileSteps[i]
             phase == (i - 1) % 3
         IN  /\ e.op = (CASE phase = 0 -> "svg2pdf"
                          [] phase = 1 -> IF i = Len(TileSteps) /\ pc = "failed"
                                          THEN "rejected" ELSE "resolved"
                          [] phase = 2 -> "annotated")
             /\ phase > 0 => (e.row = TileSteps[i - 1].row /\ e.col = TileSteps[i - 1].col)
    /\ pc \in {"idle", "importing", "rejected"} => TileSteps = << >>
    /\ pc = "loop" => Len(TileSteps) % 3 = 0
    /\ pc = "awaitRender" => Len(TileSteps) % 3 = 1
    /\ pc = "annotate" => Len(TileSteps) % 3 = 2
    /\ pc = "done" =>
         /\ Len(TileSteps) % 3 = 0
         /\ Cardinality(result) = 1
         /\ Count("output") = 1
         /\ REq(R(Count("svg2pdf")), RMul(rows, cols))
         /\ REq(R(Count("annotated")), RMul(rows, cols))
         /\ \A row \in GridRows : \A col \in GridCols :
              /\ Cardinality(CallsFor("svg2pdf", row, col)) = 1
              /\ Cardinality(CallsFor("annotated", row, col)) = 1

\* the calls of the progress callback, in order
ProgressCalls == SelectSeq(calls, LAMBDA e : e.op = "onProgress")

\* C27: in a successful conversion with a progress callback the callback
\* is invoked exactly rows * cols times, once per tile in row-major order;
\* the percentages are integers in 0..100, never decrease, and the last one
\* is 100, given before the last tile is rendered.
C27_ProgressCalls ==
    /\ \A i \in DOMAIN ProgressCalls :
         LET e == ProgressCalls[i]
         IN  /\ IsRowMajorPage(i, e.row - 1, e.col - 1)
             /\ (pc = "done" \/ IsFinite(e.n)) =>
                  /\ e.n.d = 1
                  /\ RLeq(R(0), e.n) /\ RLeq(e.n, R(100))
                  /\ i > 1 => RLeq(ProgressCalls[i - 1].n, e.n)
    /\ (pc = "done" /\ opts.onProgress) =>
         /\ REq(R(Len(ProgressCalls)), RMul(rows, cols))
         /\ Len(ProgressCalls) >= 1
         /\ ProgressCalls[Len(ProgressCalls)].n = R(100)
         /\ \A i \in CallsOf("onProgress") :
              ProgressCalls[Len(ProgressCalls)] = calls[i] =>
                  \E j \in CallsOf("resolved") :
                      j > i /\ calls[j].row = calls[i].row - 1
                            /\ calls[j].col = calls[i].col - 1

\* a number other than zero
NonZeroNumber(x) == x.d # 0 /\ x.n # 0

\* C28: getSvgDimensionsInMM returns a number other than zero on both axes
\* for every combination of width, height and viewBox: an attribute that
\* parses to 0 or to no number is replaced by the viewBox extent, and an
\* extent that is 0 or no number (or a viewBox that has not 4 parts) by the
\* default, 210 for the width and 297 for the height.
C28_NeverZeroOrNaN ==
    (pc = "measured") =>
        LET vb == opts.svg.viewBox
            fromVb(i) == Len(vb) = 4 /\ NonZeroNumber(vb[i])
        IN  /\ NonZeroNumber(svgWidthMM)
            /\ NonZeroNumber(svgHeightMM)
            /\ FalsyOrNull(widthMM) =>
                 /\ fromVb(3) => svgWidthMM = RMul(vb[3], PX_TO_MM)
                 /\ ~fromVb(3) => svgWidthMM = R(210)
            /\ FalsyOrNull(heightMM) =>
                 /\ fromVb(4) => svgHeightMM = RMul(vb[4], PX_TO_MM)
                 /\ ~fromVb(4) => svgHeightMM = R(297)
            /\ (widthMM.isNull \/ ~NonZeroNumber(widthMM.v)) <=> FalsyOrNull(widthMM)

C28_Witness ==
    /\ pc = "measured"
    /\ opts.svg.width = Mm(0)
    /\ widthMM = Num(R(0))
    /\ opts.svg.height = NonNumeric("")
    /\ opts.svg.viewBox = <<R(0), R(0), NaN, R(48)>>
    /\ svgWidthMM = R(210)
    /\ svgHeightMM = Norm(127, 10)

\* the document, paper and margin of a conversion
GridInputs(o) == << o.svg, o.paperWidth, o.paperHeight, o.margin >>

\* the regions rendered and the cut/glue labels printed, page by page
RegionsOf(pages) ==
    [k \in DOMAIN pages |->
        { SubSeq(pages[k].ops[i].a, 1, 4) : i \in OpsOn(pages[k], "svg") }]
BordersOf(pages) == [k \in DOMAIN pages |-> EdgeLabels(pages[k])]

\* two conversions lay out the same grid, and those that returned rendered
\* the same regions and printed the same border instructions
SameLayout(a, b) ==
    /\ (a.outcome # "rejected" /\ b.outcome # "rejected") =>
         /\ a.rows = b.rows
         /\ a.cols = b.cols
         /\ a.usableW = b.usableW
         /\ a.usableH = b.usableH
    /\ (a.outcome = "done" /\ b.outcome = "done") =>
         /\ RegionsOf(a.pdf) = RegionsOf(b.pdf)
         /\ BordersOf(a.pdf) = BordersOf(b.pdf)

Preview ==
    updateGridPreview(uploadedSize(opts.svg), opts.paperWidth, opts.paperHeight,
                      opts.margin)

\* C29: the preview of the page and generateTiledPDF agree: when the
\* preview reports R rows x C cols the conversion is not refused and what
\* it returns has rows = R and cols = C; when the preview reports 'Margins
\* larger than paper' or draws no grid, the conversion produces no document.
C29_PreviewAgrees ==
    /\ Preview.stats = "Creates tiles" =>
         /\ pc # "rejected"
         /\ \A res \in result : res.rows = Preview.rows /\ res.cols = Preview.cols
    /\ Preview.stats # "Creates tiles" => result = {}

\* C30: on the page, in every interleaving of uploads, clears and exports,
\* at most one conversion is in flight, and the export button is enabled
\* only while a document is loaded and no conversion is in flight.
C30_ExportGuard ==
    /\ Cardinality(ui.converting) <= 1
    /\ ~ui.btnExportDisabled =>
         /\ ui.currentSvgText # {}
         /\ ui.converting = {}

====
